---- MODULE Spec2Model ----
(***************************************************************************)
(* Llpc::SpirvLowerAlgebraTransform: the SPIR-V lowering pass that does    *)
(* dead-code removal and denormal-flushing constant folding (Phase 1, the  *)
(* scan in runOnModule) and the algebraic rewrites of visitBinaryOperator  *)
(* (Phase 2).  The function under transformation is one basic block of     *)
(* instructions; the pass is run on it once and then a second time.        *)
(***************************************************************************)
EXTENDS Integers, Sequences, FiniteSets, TLC

VARIABLES
    insts,                    \* instruction id -> instruction (erased ones keep their slot)
    block,                    \* the ids of the instructions in the block, in order
    iter,                     \* instIter: the id the loop handles next, 0 at the end
    pc,                       \* position in runOnModule: "entry", "scan", "visit", "done"
    m_changed,                \* SpirvLowerAlgebraTransform::m_changed
    m_enableConstFolding,     \* SpirvLowerAlgebraTransform::m_enableConstFolding
    m_enableFloatOpt,         \* SpirvLowerAlgebraTransform::m_enableFloatOpt
    denormFlushToZero,        \* pFpControlFlags: the widths 16, 32, 64 whose flush bit is set
    signedZeroInfNanPreserve, \* pFpControlFlags->signedZeroInfNanPreserve
    run,                      \* which run of the pass this is
    entryInsts,               \* the graph as it was when this run began
    entryBlock,
    erases,                   \* id -> how many times the instruction was erased
    ev                        \* what the last loop iteration or visit did

vars == <<insts, block, iter, pc, m_changed, m_enableConstFolding, m_enableFloatOpt,
          denormFlushToZero, signedZeroInfNanPreserve, run, entryInsts, entryBlock,
          erases, ev>>

(***************************************************************************)
(* Bounds of the model.                                                    *)
(***************************************************************************)
\* Floating constants live in a scaled-down binary format: MantBits stored
\* significand bits and exponents 0..MaxExp, magnitudes counted in units of
\* the smallest denormal.
MantBits == 1
MaxExp == 2
\* The pass is run MaxRuns times in succession.
MaxRuns == 2
\* Number of binary operators in the functions built to exercise the
\* contraction analyzer.
ChainLen == 3

(***************************************************************************)
(* Values: instruction results, the function argument, constants.          *)
(***************************************************************************)
NoLanes == <<>>
InstV(i) == [k |-> "inst", n |-> i, lanes |-> NoLanes]
ArgV == [k |-> "arg", n |-> 0, lanes |-> NoLanes]
IntV(v) == [k |-> "int", n |-> v, lanes |-> NoLanes]
FPV(ls) == [k |-> "fp", n |-> 0, lanes |-> ls]
NoValue == [k |-> "none", n |-> 0, lanes |-> NoLanes]

\* One lane of a floating constant.  cls "fin" (mag in units of the smallest
\* denormal of the scaled-down format), "inf", "nan"; cls "ieee32" is a
\* single-precision value given by its fields (mag the 23-bit fraction, exp
\* the biased exponent).
Lane(c, s, m) == [cls |-> c, neg |-> s, mag |-> m, exp |-> 0]
Ieee32(s, e, f) == [cls |-> "ieee32", neg |-> s, mag |-> f, exp |-> e]

RECURSIVE Pow2(_)
Pow2(n) == IF n = 0 THEN 1 ELSE 2 * Pow2(n - 1)

NormMin == Pow2(MantBits)                            \* smallest normal magnitude
OneMag == Pow2(MantBits + 1)                         \* magnitude of 1.0
MaxMag == (Pow2(MantBits + 1) - 1) * Pow2(MaxExp)    \* largest finite magnitude

Representable(m) ==
    \/ m < Pow2(MantBits + 1)
    \/ \E e \in 1..MaxExp :
          /\ m % Pow2(e) = 0
          /\ (m \div Pow2(e)) \in Pow2(MantBits)..(Pow2(MantBits + 1) - 1)
Mags == {m \in 0..MaxMag : Representable(m)}

RECURSIVE Significand(_)
Significand(m) == IF m < Pow2(MantBits + 1) THEN m ELSE Significand(m \div 2)

Abs(x) == IF x < 0 THEN -x ELSE x

\* num/den (in units of the smallest denormal) rounded to nearest, ties to
\* even; a value past the largest finite magnitude becomes infinity.
RoundLane(s, num, den) ==
    IF 2 * num >= den * (2 * MaxMag + Pow2(MaxExp))
    THEN Lane("inf", s, 0)
    ELSE LET Dist(r) == Abs(r * den - num)
             best == CHOOSE r \in Mags : \A q \in Mags :
                        \/ Dist(r) < Dist(q)
                        \/ Dist(r) = Dist(q) /\ (r = q \/ Significand(r) % 2 = 0)
         IN Lane("fin", s, best)

IsZeroLane(l) == l.cls = "fin" /\ l.mag = 0
IsFiniteNonZeroLane(l) == l.cls = "fin" /\ l.mag > 0
IsNormalLane(l) == l.cls = "fin" /\ l.mag >= NormMin
IsDenormalLane(l) == l.cls = "fin" /\ l.mag > 0 /\ l.mag < NormMin

NegLane(l) == [l EXCEPT !.neg = ~l.neg]
NaNLane == Lane("nan", FALSE, 0)

AddLane(x, y) ==
    IF x.cls = "nan" \/ y.cls = "nan" THEN NaNLane
    ELSE IF x.cls = "inf" /\ y.cls = "inf"
         THEN IF x.neg = y.neg THEN x ELSE NaNLane
    ELSE IF x.cls = "inf" THEN x
    ELSE IF y.cls = "inf" THEN y
    ELSE LET sx == IF x.neg THEN -x.mag ELSE x.mag
             sy == IF y.neg THEN -y.mag ELSE y.mag
             sum == sx + sy
         IN IF sum = 0 THEN Lane("fin", x.neg /\ y.neg, 0)
            ELSE RoundLane(sum < 0, Abs(sum), 1)

MulLane(x, y) ==
    LET s == (x.neg # y.neg) IN
    IF x.cls = "nan" \/ y.cls = "nan" THEN NaNLane
    ELSE IF x.cls = "inf" \/ y.cls = "inf"
         THEN IF IsZeroLane(x) \/ IsZeroLane(y) THEN NaNLane ELSE Lane("inf", s, 0)
    ELSE RoundLane(s, x.mag * y.mag, OneMag)

DivLane(x, y) ==
    LET s == (x.neg # y.neg) IN
    IF x.cls = "nan" \/ y.cls = "nan" THEN NaNLane
    ELSE IF x.cls = "inf" THEN (IF y.cls = "inf" THEN NaNLane ELSE Lane("inf", s, 0))
    ELSE IF y.cls = "inf" THEN Lane("fin", s, 0)
    ELSE IF IsZeroLane(y) THEN (IF IsZeroLane(x) THEN NaNLane ELSE Lane("inf", s, 0))
    ELSE RoundLane(s, x.mag * OneMag, y.mag)

BinaryOps == {"FAdd", "FSub", "FMul", "FDiv"}

FoldLane(op, x, y) ==
    CASE op = "FAdd" -> AddLane(x, y)
      [] op = "FSub" -> AddLane(x, NegLane(y))
      [] op = "FMul" -> MulLane(x, y)
      [] op = "FDiv" -> DivLane(x, y)

\* ConstantFoldInstruction: the constant an instruction evaluates to when all
\* its operands are constants, NoValue otherwise.
ConstantFoldInstruction(inst) ==
    IF /\ inst.op \in BinaryOps
       /\ inst.args[1].k = "fp" /\ inst.args[2].k = "fp"
       /\ Len(inst.args[1].lanes) = Len(inst.args[2].lanes)
       /\ \A i \in 1..Len(inst.args[1].lanes) :
             inst.args[1].lanes[i].cls # "ieee32" /\ inst.args[2].lanes[i].cls # "ieee32"
    THEN FPV([i \in 1..Len(inst.args[1].lanes) |->
                 FoldLane(inst.op, inst.args[1].lanes[i], inst.args[2].lanes[i])])
    ELSE NoValue

(***************************************************************************)
(* Instructions and the use-counted graph.                                 *)
(***************************************************************************)
\* fmf: the fast-math flags set on the instruction; pure: the instruction has
\* no side effect (for a call: the library analysis knows the callee as pure).
Inst(op, ty, args, fmf, callee, pure) ==
    [op |-> op, ty |-> ty, args |-> args, fmf |-> fmf, callee |-> callee, pure |-> pure]
BinInst(op, ty, a, b, fmf) == Inst(op, ty, <<a, b>>, fmf, "", TRUE)
RetInst(args) == Inst("Ret", "void", args, {}, "", FALSE)
CallInst(callee, ty, args, pure) == Inst("Call", ty, args, {}, callee, pure)

SeqRange(s) == {s[i] : i \in DOMAIN s}

Graph == [insts |-> insts, block |-> block, erases |-> erases]

\* The use list of instruction id: the operand slots of instructions in the
\* block that refer to it.
Users(G, id) ==
    {us \in SeqRange(G.block) \X {1, 2} :
        /\ us[2] <= Len(G.insts[us[1]].args)
        /\ G.insts[us[1]].args[us[2]] = InstV(id)}

UseEmpty(G, id) == Users(G, id) = {}

IsTerminator(inst) == inst.op = "Ret"

\* Variant: the side-effect test inverted.
IsInstructionTriviallyDeadImpure(G, id) ==
    /\ UseEmpty(G, id)
    /\ ~IsTerminator(G.insts[id])
    /\ ~G.insts[id].pure

IsInstructionTriviallyDead(G, id) ==
    /\ UseEmpty(G, id)
    /\ ~IsTerminator(G.insts[id])
    /\ G.insts[id].pure

\* Variant: the uses are left as they are.
ReplaceAllUsesWithSkipped(G, id, new) == G

ReplaceAllUsesWith(G, id, new) ==
    LET Rewrite(inst) ==
            [inst EXCEPT !.args = [s \in DOMAIN inst.args |->
                                     IF inst.args[s] = InstV(id) THEN new ELSE inst.args[s]]]
    IN [G EXCEPT !.insts = [i \in DOMAIN G.insts |-> Rewrite(G.insts[i])]]

DropAllReferences(G, id) == [G EXCEPT !.insts[id].args = <<>>]

\* Unlinks the instruction from the block and deletes it (its operands go
\* with it).
EraseFromParent(G, id) ==
    [insts |-> [G.insts EXCEPT ![id].args = <<>>],
     block |-> SelectSeq(G.block, LAMBDA x : x # id),
     erases |-> [G.erases EXCEPT ![id] = @ + 1]]

IndexOf(s, x) == IF x \in SeqRange(s) THEN CHOOSE i \in DOMAIN s : s[i] = x ELSE Len(s) + 1

\* EmitCall: a new call instruction, inserted before instruction `before`.
EmitCall(G, callee, retTy, args, before) ==
    LET n == Len(G.insts) + 1
        at == IndexOf(G.block, before)
    IN [insts |-> Append(G.insts, CallInst(callee, retTy, args, FALSE)),
        block |-> SubSeq(G.block, 1, at - 1) \o <<n>> \o SubSeq(G.block, at, Len(G.block)),
        erases |-> Append(G.erases, 0)]

\* instIter++: the instruction after id in the block, 0 at the end.
NextInBlock(blk, id) ==
    LET at == IndexOf(blk, id)
    IN IF at < Len(blk) THEN blk[at + 1] ELSE 0

FirstInBlock(blk) == IF Len(blk) = 0 THEN 0 ELSE blk[1]

Event(id, how, by, was, fmfA, nc, generic, users) ==
    [id |-> id, how |-> how, by |-> by, was |-> was, fmfA |-> fmfA, noContract |-> nc,
     generic |-> generic, users |-> users]
NoEvent == Event(0, "none", NoValue, RetInst(<<>>), {}, FALSE, NoValue, {})

(***************************************************************************)
(* Phase 1: the scan of runOnModule.                                       *)
(***************************************************************************)
IsFPOrFPVectorTy(ty) == ty \in {"half", "float", "double", "v2f32"}
IsConstant(v) == v.k \in {"fp", "int"}

\* "Skip Constant folding if it isn't floating point const expression"
SkipConstantFolding(G, id) ==
    \/ UseEmpty(G, id)
    \/ Len(G.insts[id].args) = 0
    \/ ~IsFPOrFPVectorTy(G.insts[id].ty)
    \/ ~IsConstant(G.insts[id].args[1])

FlushApplies(ty) ==
    \/ ty = "half" /\ 16 \in denormFlushToZero
    \/ ty = "float" /\ 32 \in denormFlushToZero
    \/ ty = "double" /\ 64 \in denormFlushToZero

IsFiniteNonZeroFP(c) == \A i \in DOMAIN c.lanes : IsFiniteNonZeroLane(c.lanes[i])
IsNormalFP(c) == \A i \in DOMAIN c.lanes : IsNormalLane(c.lanes[i])

\* "Replace denorm value with zero": ConstantFP::get(pDestType, 0.0)
FlushDenorm(ty, pConst) ==
    IF FlushApplies(ty) /\ IsFiniteNonZeroFP(pConst) /\ ~IsNormalFP(pConst)
    THEN FPV(<<Lane("fin", FALSE, 0)>>)
    ELSE pConst

\* The two 16-bit lanes of a 32-bit integer constant (held as its signed
\* value): constVal & 0xFFFF and (constVal >> 16) & 0xFFFF.
LowHalf(v) == v % 65536
HighHalf(v) == ((v - LowHalf(v)) \div 65536) % 65536

HalfSign(bits) == bits \div 32768
HalfExp(bits) == (bits \div 1024) % 32
HalfMant(bits) == bits % 1024
HalfIsDenormal(bits) == HalfExp(bits) = 0 /\ HalfMant(bits) # 0

\* "Flush denorm input value to zero": APFloat(APFloat::IEEEhalf(), 0)
FlushHalf(bits) == IF HalfIsDenormal(bits) THEN 0 ELSE bits

RECURSIVE TopBit(_)
TopBit(m) == IF m < 2 THEN 0 ELSE 1 + TopBit(m \div 2)

\* APFloat::convert from IEEEhalf to IEEEsingle (exact for every half).
HalfToSingle(bits) ==
    LET s == HalfSign(bits) = 1
        e == HalfExp(bits)
        m == HalfMant(bits)
    IN IF e = 31 THEN Ieee32(s, 255, m * 8192)
       ELSE IF e > 0 THEN Ieee32(s, e + 112, m * 8192)
       ELSE IF m = 0 THEN Ieee32(s, 0, 0)
       ELSE Ieee32(s, 103 + TopBit(m), (m - Pow2(TopBit(m))) * Pow2(23 - TopBit(m)))

UnpackHalf2x16(v) ==
    FPV(<<HalfToSingle(FlushHalf(LowHalf(v))), HalfToSingle(FlushHalf(HighHalf(v)))>>)

IsUnpackHalfCall(inst) ==
    /\ inst.op = "Call"
    /\ 16 \in denormFlushToZero
    /\ inst.callee = "_Z14unpackHalf2x16i"
    /\ inst.args[1].k = "int"

Step(g, changed, e) == [g |-> g, changed |-> changed, ev |-> e]

\* Replace every use by the constant, erase the instruction if that left it dead.
ReplaceByConstant(G, id, c) ==
    LET g1 == ReplaceAllUsesWith(G, id, c)
    IN IF IsInstructionTriviallyDead(g1, id) THEN EraseFromParent(g1, id) ELSE g1

\* One iteration of the loop over the entry block, on pInst = id.
ScanBody(G, id) ==
    LET inst == G.insts[id]
        users == Users(G, id)
        pConst == ConstantFoldInstruction(inst)
        E(how, by, generic) == Event(id, how, by, inst, inst.fmf, FALSE, generic, users)
    IN IF IsInstructionTriviallyDead(G, id)
       THEN Step(EraseFromParent(G, id), TRUE, E("dce", NoValue, NoValue))
       ELSE IF SkipConstantFolding(G, id)
       THEN Step(G, FALSE, E("skip", NoValue, NoValue))
       ELSE IF pConst # NoValue
       THEN Step(ReplaceByConstant(G, id, FlushDenorm(inst.ty, pConst)), TRUE,
                 E("fold", FlushDenorm(inst.ty, pConst), pConst))
       ELSE IF IsUnpackHalfCall(inst)
       THEN Step(ReplaceByConstant(G, id, UnpackHalf2x16(inst.args[1].n)), TRUE,
                 E("unpack", UnpackHalf2x16(inst.args[1].n), NoValue))
       ELSE Step(G, FALSE, E("skip", NoValue, NoValue))

(***************************************************************************)
(* Phase 2: visitBinaryOperator.                                           *)
(***************************************************************************)
IsPosZeroLane(l) == l.cls \in {"fin", "ieee32"} /\ l.mag = 0 /\ l.exp = 0 /\ ~l.neg
IsAnyZeroLane(l) == l.cls \in {"fin", "ieee32"} /\ l.mag = 0 /\ l.exp = 0

\* isa<ConstantAggregateZero>(v) || (isa<ConstantFP>(v) && v->isZero())
IsConstZero(v) ==
    /\ v.k = "fp"
    /\ \/ Len(v.lanes) > 1 /\ \A i \in DOMAIN v.lanes : IsPosZeroLane(v.lanes[i])
       \/ Len(v.lanes) = 1 /\ IsAnyZeroLane(v.lanes[1])

\* Recursively finds backward if the operand does not specify the contract flag.
RECURSIVE IsOperandNoContract(_, _)
IsOperandNoContract(G, pOperand) ==
    IF pOperand.k = "inst" /\ G.insts[pOperand.n].op \in BinaryOps
    THEN LET pInst == G.insts[pOperand.n]
         IN IF pInst.fmf # {} /\ "contract" \notin pInst.fmf
            THEN TRUE
            ELSE IF Len(pInst.args) > 0
                 THEN IsOperandNoContract(G, pInst.args[1])
                 ELSE FALSE
    ELSE FALSE

HasNoContract(G, inst) ==
    IsOperandNoContract(G, inst.args[1]) \/ IsOperandNoContract(G, inst.args[2])

\* Variant: only the contract flag is rewritten.
ContractFlagsContractOnly(G, inst) ==
    IF inst.op = "FAdd" /\ "contract" \in inst.fmf /\ HasNoContract(G, inst)
    THEN inst.fmf \ {"contract"}
    ELSE inst.fmf

\* Step A: the flags the instruction carries after the FAdd block.
ContractFlags(G, inst) ==
    IF inst.op = "FAdd" /\ "contract" \in inst.fmf
    THEN IF HasNoContract(G, inst)
         THEN inst.fmf \ {"reassoc", "contract"}
         ELSE inst.fmf \cup {"reassoc", "contract"}
    ELSE inst.fmf

\* Variant: only the flush mask gates the identities.
IdentityAllowedFlushOnly == denormFlushToZero = {}

\* "We can't skip following floating operations if we need flush denorm or
\* preserve NAN."
IdentityAllowed == denormFlushToZero = {} /\ ~signedZeroInfNanPreserve

\* Variant: a multiplication by zero yields the other operand.
IdentityDestMulOther(opCode, pSrc1, pSrc2) ==
    LET src1IsConstZero == IsConstZero(pSrc1)
        src2IsConstZero == IsConstZero(pSrc2)
    IN CASE opCode \in {"FAdd", "FMul"} ->
              IF src1IsConstZero THEN pSrc2
              ELSE IF src2IsConstZero THEN pSrc1 ELSE NoValue
         [] opCode = "FDiv" ->
              IF src1IsConstZero /\ ~src2IsConstZero THEN pSrc1 ELSE NoValue
         [] opCode = "FSub" ->
              IF src2IsConstZero THEN pSrc1 ELSE NoValue
         [] OTHER -> NoValue

\* Step B: the switch that picks pDest, NoValue for nullptr.
IdentityDest(opCode, pSrc1, pSrc2) ==
    LET src1IsConstZero == IsConstZero(pSrc1)
        src2IsConstZero == IsConstZero(pSrc2)
    IN CASE opCode = "FAdd" ->
              IF src1IsConstZero THEN pSrc2
              ELSE IF src2IsConstZero THEN pSrc1 ELSE NoValue
         [] opCode = "FMul" ->
              IF src1IsConstZero THEN pSrc1
              ELSE IF src2IsConstZero THEN pSrc2 ELSE NoValue
         [] opCode = "FDiv" ->
              IF src1IsConstZero /\ ~src2IsConstZero THEN pSrc1 ELSE NoValue
         [] opCode = "FSub" ->
              IF src2IsConstZero THEN pSrc1 ELSE NoValue
         [] OTHER -> NoValue

\* Variant: the fallback does not look at pDest.
FDivFallbackFiresAlways(opCode, pDest, pSrc1, pSrc2) ==
    opCode = "FDiv" /\ pSrc1 # NoValue /\ pSrc2 # NoValue

\* Step C fires: "Replace fdiv with function call if it isn't optimized"
FDivFallbackFires(opCode, pDest, pSrc1, pSrc2) ==
    opCode = "FDiv" /\ pDest = NoValue /\ pSrc1 # NoValue /\ pSrc2 # NoValue

\* SPIRV::mangleBuiltin("fdiv", argTypes, &Info)
MangleFDiv(ty) ==
    CASE ty = "half" -> "_Z4fdivDhDh"
      [] ty = "float" -> "_Z4fdivff"
      [] ty = "double" -> "_Z4fdivdd"
      [] OTHER -> "_Z4fdivDv2_fS_"

ReplaceAndErase(G, id, v) ==
    EraseFromParent(DropAllReferences(ReplaceAllUsesWith(G, id, v), id), id)

VisitBinaryOperator(G, id) ==
    LET inst == G.insts[id]
        opCode == inst.op
        pSrc1 == inst.args[1]
        pSrc2 == inst.args[2]
        users == Users(G, id)
        fmfA == ContractFlags(G, inst)
        gA == [G EXCEPT !.insts[id].fmf = fmfA]
        pDest == IF IdentityAllowed THEN IdentityDest(opCode, pSrc1, pSrc2) ELSE NoValue
        gB == IF pDest # NoValue THEN ReplaceAndErase(gA, id, pDest) ELSE gA
        fire == FDivFallbackFires(opCode, pDest, pSrc1, pSrc2)
        pFDiv == InstV(Len(gB.insts) + 1)
        gC == IF fire
              THEN ReplaceAndErase(EmitCall(gB, MangleFDiv(inst.ty), inst.ty,
                                            <<pSrc1, pSrc2>>, id), id, pFDiv)
              ELSE gB
        how == IF pDest # NoValue THEN "identity" ELSE IF fire THEN "fdiv" ELSE "kept"
        by == IF pDest # NoValue THEN pDest ELSE IF fire THEN pFDiv ELSE NoValue
    IN Step(gC, pDest # NoValue \/ fire,
            Event(id, how, by, inst, fmfA, HasNoContract(G, inst), NoValue, users))

(***************************************************************************)
(* The functions and settings the pass is run on.                          *)
(***************************************************************************)
LanesOf(ty) == IF ty = "v2f32" THEN 2 ELSE 1
Splat(ty, l) == FPV([i \in 1..LanesOf(ty) |-> l])
Zero(ty) == Splat(ty, Lane("fin", FALSE, 0))
NegZero(ty) == Splat(ty, Lane("fin", TRUE, 0))
NegDenormal(ty) == Splat(ty, Lane("fin", TRUE, 1))
MinNormal(ty) == Splat(ty, Lane("fin", FALSE, NormMin))

FPTypes == {"half", "float", "double", "v2f32"}
FlushSets == {{}, {32}, {16, 64}}
FlagSets == {{}, {"nnan"}, {"contract"}, {"reassoc", "contract"}}

\* The state after construction of the pass (m_changed false), about to run
\* on a function with the given body under the given settings.
Start(body, cf, fo, flush, preserve) ==
    /\ insts = body
    /\ block = [i \in 1..Len(body) |-> i]
    /\ erases = [i \in 1..Len(body) |-> 0]
    /\ iter = 0
    /\ pc = "entry"
    /\ m_changed = FALSE
    /\ m_enableConstFolding = cf
    /\ m_enableFloatOpt = fo
    /\ denormFlushToZero = flush
    /\ signedZeroInfNanPreserve = preserve
    /\ run = 1
    /\ entryInsts = body
    /\ entryBlock = [i \in 1..Len(body) |-> i]
    /\ ev = NoEvent

\* One binary operator over the argument and constants of every class.
ArithLeaves(ty) == {ArgV, Zero(ty), NegZero(ty), NegDenormal(ty), MinNormal(ty)}
ArithOne ==
    \E ty \in FPTypes, op \in BinaryOps, r \in {<<>>, <<InstV(1)>>},
       cf \in BOOLEAN, fo \in BOOLEAN, flush \in FlushSets, preserve \in BOOLEAN :
        \E a \in ArithLeaves(ty), b \in ArithLeaves(ty) :
            Start(<<BinInst(op, ty, a, b, {}), RetInst(r)>>, cf, fo, flush, preserve)

\* Two binary operators, the second possibly consuming the first.
ArithTwo ==
    \E op1 \in {"FAdd", "FDiv"}, op2 \in {"FAdd", "FDiv"},
       a1 \in {ArgV, Zero("float")}, b1 \in {ArgV, Zero("float")},
       a2 \in {ArgV, Zero("float"), InstV(1)}, b2 \in {ArgV, Zero("float"), InstV(1)},
       r \in {<<>>, <<InstV(1)>>, <<InstV(2)>>},
       cf \in BOOLEAN, fo \in BOOLEAN, flush \in {{}, {32}}, preserve \in BOOLEAN :
        Start(<<BinInst(op1, "float", a1, b1, {}), BinInst(op2, "float", a2, b2, {}), RetInst(r)>>,
              cf, fo, flush, preserve)

\* One or two adds and multiplies carrying fast-math flags.
FlagsOne ==
    \E op \in {"FAdd", "FMul"}, a \in {ArgV, Zero("float")}, b \in {ArgV, Zero("float")},
       f \in FlagSets, preserve \in BOOLEAN :
        Start(<<BinInst(op, "float", a, b, f), RetInst(<<InstV(1)>>)>>, FALSE, TRUE, {}, preserve)

FlagsTwo ==
    \E op1 \in {"FAdd", "FMul"}, op2 \in {"FAdd", "FMul"},
       a1 \in {ArgV, Zero("float")}, b1 \in {ArgV, Zero("float")},
       a2 \in {ArgV, Zero("float"), InstV(1)}, b2 \in {ArgV, Zero("float"), InstV(1)},
       f1 \in FlagSets, f2 \in FlagSets, preserve \in BOOLEAN :
        Start(<<BinInst(op1, "float", a1, b1, f1), BinInst(op2, "float", a2, b2, f2),
                RetInst(<<InstV(2)>>)>>, FALSE, TRUE, {}, preserve)

\* Chains of ChainLen binary operators ending in an add that allows
\* contraction: every operator after the first consumes its predecessor.
RECURSIVE ChainPrefixes(_)
ChainPrefixes(n) ==
    IF n = 1
    THEN {<<BinInst(op, "float", ArgV, ArgV, f)>> :
             op \in {"FAdd", "FMul"}, f \in {{}, {"nnan"}, {"contract"}}}
    ELSE {Append(pre, BinInst(op, "float", ab[1], ab[2], f)) :
             pre \in ChainPrefixes(n - 1), op \in {"FAdd", "FMul"},
             ab \in {<<InstV(n - 1), ArgV>>, <<ArgV, InstV(n - 1)>>, <<InstV(n - 1), InstV(n - 1)>>},
             f \in {{}, {"nnan"}, {"contract"}}}

Chains ==
    \E pre \in ChainPrefixes(ChainLen - 1),
       ab \in {<<InstV(ChainLen - 1), ArgV>>, <<ArgV, InstV(ChainLen - 1)>>,
               <<InstV(ChainLen - 1), InstV(ChainLen - 1)>>,
               <<InstV(ChainLen - 1), InstV(ChainLen - 2)>>,
               <<InstV(ChainLen - 2), InstV(ChainLen - 1)>>},
       f \in {{"contract"}, {"reassoc", "contract"}} :
        Start(pre \o <<BinInst("FAdd", "float", ab[1], ab[2], f), RetInst(<<InstV(ChainLen)>>)>>,
              FALSE, TRUE, {}, FALSE)

\* A call to the half-unpack builtin on an integer constant, given as the
\* signed value of its 32 bits: 0x00000000, 0x00003C00, 0x3C000001,
\* 0x00008001, 0x8001C000, 0xFC003E00.
UnpackArgs == {0, 15360, 1006632961, 32769, -2147368960, -67092992}
Unpacks ==
    \E v \in UnpackArgs, pure \in BOOLEAN, r \in {<<>>, <<InstV(1)>>},
       cf \in BOOLEAN, fo \in BOOLEAN, flush \in {{}, {16}, {32}} :
        Start(<<CallInst("_Z14unpackHalf2x16i", "v2f32", <<IntV(v)>>, pure), RetInst(r)>>,
              cf, fo, flush, FALSE)

(***************************************************************************)
(* The pass as a state machine.                                            *)
(***************************************************************************)
Init == ArithOne \/ ArithTwo \/ FlagsOne \/ FlagsTwo \/ Chains \/ Unpacks

Config == <<m_enableConstFolding, m_enableFloatOpt, denormFlushToZero, signedZeroInfNanPreserve>>

Phase1Enabled == m_enableConstFolding /\ denormFlushToZero # {}

\* Where control goes once the scan is over or was skipped.
AfterScan ==
    /\ pc' = IF m_enableFloatOpt THEN "visit" ELSE "done"
    /\ iter' = IF m_enableFloatOpt THEN FirstInBlock(block) ELSE 0

\* Variant: the flag of the previous run is kept.
ResetChangedSkipped(old) == old

\* "m_changed = false" at the top of runOnModule.
ResetChanged(old) == FALSE

\* Entry of runOnModule, for the first run or for a run that follows one.
RunOnModule ==
    /\ pc = "entry" \/ (pc = "done" /\ run < MaxRuns)
    /\ run' = IF pc = "done" THEN run + 1 ELSE run
    /\ m_changed' = ResetChanged(m_changed)
    /\ entryInsts' = insts
    /\ entryBlock' = block
    /\ ev' = NoEvent
    /\ IF Phase1Enabled
       THEN pc' = "scan" /\ iter' = FirstInBlock(block)
       ELSE AfterScan
    /\ UNCHANGED <<insts, block, erases, Config>>

Apply(step) ==
    /\ insts' = step.g.insts
    /\ block' = step.g.block
    /\ erases' = step.g.erases
    /\ m_changed' = (m_changed \/ step.changed)
    /\ ev' = step.ev

\* One iteration of the Phase 1 loop.
ScanInstruction ==
    /\ pc = "scan" /\ iter # 0
    /\ iter' = NextInBlock(block, iter)
    /\ Apply(ScanBody(Graph, iter))
    /\ UNCHANGED <<pc, run, entryInsts, entryBlock, Config>>

ScanEnd ==
    /\ pc = "scan" /\ iter = 0
    /\ AfterScan
    /\ UNCHANGED <<insts, block, erases, m_changed, run, entryInsts, entryBlock, ev, Config>>

\* InstVisitor dispatch on one instruction: binary operators go to
\* visitBinaryOperator, every other instruction is left alone.
VisitInstruction ==
    /\ pc = "visit" /\ iter # 0
    /\ iter' = NextInBlock(block, iter)
    /\ IF insts[iter].op \in BinaryOps
       THEN Apply(VisitBinaryOperator(Graph, iter))
       ELSE Apply(Step(Graph, FALSE,
                       Event(iter, "other", NoValue, insts[iter], insts[iter].fmf, FALSE,
                             NoValue, Users(Graph, iter))))
    /\ UNCHANGED <<pc, run, entryInsts, entryBlock, Config>>

\* return m_changed
Return ==
    /\ pc = "visit" /\ iter = 0
    /\ pc' = "done"
    /\ UNCHANGED <<insts, block, erases, iter, m_changed, run, entryInsts, entryBlock, ev, Config>>

Next == RunOnModule \/ ScanInstruction \/ ScanEnd \/ VisitInstruction \/ Return

Spec == Init /\ [][Next]_vars

(***************************************************************************)
(* Properties.                                                             *)
(***************************************************************************)
Live == SeqRange(block)
EntryGraph == [insts |-> entryInsts, block |-> entryBlock, erases |-> erases]
Erased(id) == erases[id] > 0
FromScan == ev.how \in {"dce", "fold", "unpack", "skip"}
FromVisit == ev.how \in {"identity", "fdiv", "kept"}
UsersRewritten == \A us \in ev.users : insts[us[1]].args[us[2]] = ev.by

\* C1: replace-then-erase.  No instruction in the block has an operand that
\* refers to an instruction that is no longer in the block, and when the last
\* step erased an instruction after replacing it, every operand slot that used
\* it holds the replacement.
C1_ReplaceThenErase ==
    /\ \A u \in Live : \A s \in DOMAIN insts[u].args :
          insts[u].args[s].k = "inst" =>
              insts[u].args[s].n \in Live /\ ~Erased(insts[u].args[s].n)
    /\ (ev.how \in {"fold", "unpack", "identity", "fdiv"} /\ Erased(ev.id)) => UsersRewritten
    /\ ev.how = "dce" => ev.users = {}

\* An instruction with uses was replaced by one of its operands and erased.
C1_Witness ==
    /\ ev.how = "identity" /\ ev.users # {} /\ Erased(ev.id)
    /\ ev.by.k = "inst"

SameAsAtEntry == insts = entryInsts /\ block = entryBlock

\* C2 as stated: a run that follows a run returns changed = false and leaves
\* the graph as it found it.
C2_Idempotent ==
    (pc = "done" /\ run >= 2) => (~m_changed /\ SameAsAtEntry)

DeadAtEntry(id) == IsInstructionTriviallyDead(EntryGraph, id)

\* C2 amended: a run that follows a run returns changed = false and leaves
\* the graph as it found it, unless Phase 1 is active and the earlier run left
\* a trivially dead instruction behind.
C2_IdempotentUnlessDeadLeft ==
    (/\ pc = "done" /\ run >= 2
     /\ ~(Phase1Enabled /\ \E id \in SeqRange(entryBlock) : DeadAtEntry(id)))
    => (~m_changed /\ SameAsAtEntry)

\* A second run with both phases active, after a first run that erased
\* something, has finished without a change.
C2_Witness ==
    /\ pc = "done" /\ run = 2 /\ Phase1Enabled /\ m_enableFloatOpt
    /\ \E i \in DOMAIN erases : Erased(i)
    /\ ~m_changed /\ SameAsAtEntry

\* C3: the value returned is true exactly when the graph differs from the
\* graph at pass entry.
C3_ChangedIffGraphDiffers ==
    pc = "done" => (m_changed <=> ~SameAsAtEntry)

\* Some binary operator reachable from v through operands (any operand, any
\* depth) has a fast-math flag set and the contract flag clear.
RECURSIVE ChainHasNoContract(_)
ChainHasNoContract(v) ==
    /\ v.k = "inst"
    /\ insts[v.n].op \in BinaryOps
    /\ \/ insts[v.n].fmf # {} /\ "contract" \notin insts[v.n].fmf
       \/ \E s \in DOMAIN insts[v.n].args : ChainHasNoContract(insts[v.n].args[s])

\* C4: after Phase 2, an add that allowed contraction and whose operand chain
\* passes through a no-contract binary operator allows neither contraction
\* nor reassociation.
C4_ContractionPropagates ==
    (pc = "done" /\ m_enableFloatOpt) =>
        \A id \in Live :
            (/\ insts[id].op = "FAdd"
             /\ id \in DOMAIN entryInsts /\ "contract" \in entryInsts[id].fmf
             /\ \E s \in DOMAIN insts[id].args : ChainHasNoContract(insts[id].args[s]))
            => insts[id].fmf \cap {"contract", "reassoc"} = {}

StepAForbids == ev.was.op = "FAdd" /\ "contract" \in ev.was.fmf /\ ev.noContract
StepAPermits == ev.was.op = "FAdd" /\ "contract" \in ev.was.fmf /\ ~ev.noContract
FlagsInGraph == ev.how = "kept" => insts[ev.id].fmf = ev.fmfA

\* C5 as stated: unless the analyzer forbids contraction for an add that
\* allows it, Step A leaves every fast-math flag as it was.
C5_StepAKeepsFlags ==
    (FromVisit /\ ~StepAForbids) => (ev.fmfA = ev.was.fmf /\ FlagsInGraph)

\* C5 amended: an add that allows contraction and for which the analyzer
\* answers false on both operands leaves Step A with the reassociation flag
\* set and every other flag as it was; an add that does not allow contraction
\* and a binary operator that is no add keep all their flags.
C5_StepAFlags ==
    /\ (FromVisit /\ StepAPermits) => (ev.fmfA = ev.was.fmf \cup {"reassoc"} /\ FlagsInGraph)
    /\ (FromVisit /\ ~StepAPermits /\ ~StepAForbids) => (ev.fmfA = ev.was.fmf /\ FlagsInGraph)

\* An add with only the contract flag and a clean chain came out of its visit
\* with reassociation switched on.
C5_Witness ==
    /\ ev.how = "kept" /\ StepAPermits /\ ev.was.fmf = {"contract"}
    /\ insts[ev.id].fmf = {"reassoc", "contract"}

AllPosZero(v) == v.k = "fp" /\ \A i \in DOMAIN v.lanes : IsPosZeroLane(v.lanes[i])
ScalarZero(v) == v.k = "fp" /\ Len(v.lanes) = 1 /\ IsAnyZeroLane(v.lanes[1])
ZeroConst(v) == ScalarZero(v) \/ AllPosZero(v)

NonZeroConstant(v) == v.k = "fp" /\ ~ZeroConst(v)
NotZeroConstant(v) == ~ZeroConst(v)

\* The operand the identity laws pick for a binary operator with operands a
\* and b, NoValue when none applies; divRightOk is the condition the division
\* law puts on the right operand.
LawOperand(op, a, b, divRightOk) ==
    IF op = "FAdd" /\ ZeroConst(a) THEN b
    ELSE IF op = "FAdd" /\ ZeroConst(b) THEN a
    ELSE IF op = "FMul" /\ ZeroConst(a) THEN a
    ELSE IF op = "FMul" /\ ZeroConst(b) THEN b
    ELSE IF op = "FSub" /\ ZeroConst(b) THEN a
    ELSE IF op = "FDiv" /\ ZeroConst(a) /\ divRightOk THEN a
    ELSE NoValue

\* The last visit did what the identity laws say; constantDivisor tells
\* whether the division law asks for a constant right operand.
IdentityAsLaw(constantDivisor) ==
    (FromVisit /\ ~signedZeroInfNanPreserve /\ denormFlushToZero = {}) =>
        LET b == ev.was.args[2]
            law == LawOperand(ev.was.op, ev.was.args[1], b,
                              IF constantDivisor THEN NonZeroConstant(b) ELSE NotZeroConstant(b))
        IN IF law = NoValue
           THEN ev.how # "identity"
           ELSE /\ ev.how = "identity" /\ ev.by = law
                /\ UsersRewritten
                /\ erases[ev.id] = 1 /\ ev.id \notin Live

\* C6 as stated: with preservation off and no flush bit set, a binary operator
\* is replaced by the operand the identity laws name and by nothing else, the
\* division law asking for a right operand that is a non-zero constant.
C6_IdentityLaws == IdentityAsLaw(TRUE)

\* C6 amended: the same, the division law asking only that the right operand
\* is not a constant zero (it may be a non-constant value).
C6_IdentityLawsAnyDivisor == IdentityAsLaw(FALSE)

\* A division of constant zero by the function argument was replaced by its
\* left operand in the instructions that used it.
C6_Witness ==
    /\ ev.how = "identity" /\ ev.was.op = "FDiv" /\ ev.was.args[2] = ArgV
    /\ ev.users # {} /\ ev.by = ev.was.args[1]

\* C7: with signed-zero/NaN/Infinity preservation on or any flush bit set, no
\* visit replaces a binary operator by one of its operands: an operator that
\* is no division stays in the block with its operands, a division is replaced
\* by a call.
C7_IdentityGated ==
    (FromVisit /\ (signedZeroInfNanPreserve \/ denormFlushToZero # {})) =>
        /\ ev.how # "identity"
        /\ ev.was.op # "FDiv" =>
              ev.id \in Live /\ insts[ev.id].args = ev.was.args /\ ~Erased(ev.id)
        /\ ev.was.op = "FDiv" => ev.by.k = "inst" /\ insts[ev.by.n].op = "Call"

\* An add of the argument and constant zero was visited with preservation on
\* (and no flush bit set) and is still in the block.
C7_Witness ==
    /\ ev.how = "kept" /\ signedZeroInfNanPreserve /\ denormFlushToZero = {}
    /\ ev.was.op = "FAdd" /\ ZeroConst(ev.was.args[2]) /\ ev.id \in Live

\* C8: a division that Step B did not replace is replaced by a call to the
\* mangled fdiv builtin on the two original operands, of the division's type,
\* that takes over every use; no instruction is erased twice, and no division
\* is left after Phase 2.
C8_FDivFallback ==
    /\ (FromVisit /\ ev.was.op = "FDiv" /\ ev.how # "identity") =>
          /\ ev.how = "fdiv" /\ ev.by.k = "inst"
          /\ ev.by.n \in Live /\ ev.by.n \notin DOMAIN entryInsts
          /\ insts[ev.by.n].op = "Call"
          /\ insts[ev.by.n].callee \in {"_Z4fdivDhDh", "_Z4fdivff", "_Z4fdivdd", "_Z4fdivDv2_fS_"}
          /\ insts[ev.by.n].args = ev.was.args
          /\ insts[ev.by.n].ty = ev.was.ty
          /\ UsersRewritten
          /\ ev.id \notin Live
    /\ \A i \in DOMAIN erases : erases[i] <= 1
    /\ (pc = "done" /\ m_enableFloatOpt) => \A id \in Live : insts[id].op # "FDiv"

\* A division with uses was replaced by the call while preservation was on.
C8_Witness ==
    /\ ev.how = "fdiv" /\ ev.users # {} /\ signedZeroInfNanPreserve
    /\ erases[ev.id] = 1

ElementWidth(ty) ==
    CASE ty = "half" -> 16 [] ty = "double" -> 64 [] OTHER -> 32

\* The constant C10 has substituted for a generically folded constant c of
\* type ty: each denormal lane becomes a zero of the same sign when the flush
\* bit of the lane's width is set, every other lane is left as it is.
SignedFlush(ty, c) ==
    FPV([i \in DOMAIN c.lanes |->
            IF IsDenormalLane(c.lanes[i]) /\ ElementWidth(ty) \in denormFlushToZero
            THEN Lane("fin", c.lanes[i].neg, 0)
            ELSE c.lanes[i]])

\* C10: the constant substituted by a Phase 1 fold is the generically folded
\* one with its denormals flushed to a zero of the same sign exactly when the
\* flush bit of their width is set.
C10_FlushOnFold ==
    ev.how = "fold" =>
        /\ ev.generic = ConstantFoldInstruction(ev.was)
        /\ ev.by = SignedFlush(ev.was.ty, ev.generic)

\* The single-precision lane l holds exactly the value of the half with the
\* given bits, the half not being a denormal: same sign, and for a normal half
\* 2^(e-15) * (1 + m/2^10) = 2^(E-127) * (1 + F/2^23), that is F = m * 2^13.
ExactSingle(bits, l) ==
    /\ l.cls = "ieee32"
    /\ l.neg = (HalfSign(bits) = 1)
    /\ IF HalfExp(bits) = 31
       THEN l.exp = 255 /\ (l.mag = 0 <=> HalfMant(bits) = 0)
       ELSE IF HalfExp(bits) = 0
            THEN l.exp = 0 /\ l.mag = 0
            ELSE /\ l.exp - 127 = HalfExp(bits) - 15
                 /\ l.mag % 8192 = 0 /\ l.mag \div 8192 = HalfMant(bits)

\* The lane the unpack is to give for the half with the given bits: a zero of
\* the denormal's sign for a denormal, the exact value otherwise.
SignedUnpackLane(bits, l) ==
    IF HalfIsDenormal(bits)
    THEN l = Ieee32(HalfSign(bits) = 1, 0, 0)
    ELSE ExactSingle(bits, l)

\* The calls of the half-unpack builtin on an integer constant that had uses
\* when the run began.
UsedUnpackCalls ==
    {id \in SeqRange(entryBlock) :
        /\ entryInsts[id].op = "Call"
        /\ entryInsts[id].callee = "_Z14unpackHalf2x16i"
        /\ entryInsts[id].args[1].k = "int"
        /\ ~UseEmpty(EntryGraph, id)}

\* C11: half-unpack.  With constant folding on and the 16-bit flush flag set,
\* once the Phase 1 scan is over no used call of the unpack builtin on an
\* integer constant has a use left; and the constant that replaced the uses
\* has two lanes, lane 0 from the low and lane 1 from the high 16 bits of the
\* argument, each a zero of the denormal's sign when its half is a denormal
\* and the exact single-precision value of its half otherwise.
C11_HalfUnpack ==
    /\ (m_enableConstFolding /\ 16 \in denormFlushToZero /\ pc \in {"visit", "done"}) =>
          \A id \in UsedUnpackCalls : UseEmpty(Graph, id)
    /\ ev.how = "unpack" =>
          /\ ev.users # {} /\ UsersRewritten
          /\ ev.by.k = "fp" /\ Len(ev.by.lanes) = 2
          /\ SignedUnpackLane(LowHalf(ev.was.args[1].n), ev.by.lanes[1])
          /\ SignedUnpackLane(HighHalf(ev.was.args[1].n), ev.by.lanes[2])

====
